---- MODULE Spec2Model ----
(***************************************************************************)
(* Air-quality monitor (src/App.tsx): the EPA AQI engine, the two-level    *)
(* live subscription of useRealtimeData, and the alert effect of           *)
(* DashboardPage that writes to the 'alerts' node of the database.         *)
(*                                                                         *)
(* Numbers.  A JavaScript number x is represented by the integer x*Scale   *)
(* (fixed point, four decimals).  NaN is a distinguished value that every  *)
(* comparison rejects, as in JavaScript; Missing stands for an absent      *)
(* (undefined) leaf of a raw sample.  AQI values, being results of         *)
(* Math.round, are plain integers.                                         *)
(***************************************************************************)
EXTENDS Integers, Sequences, FiniteSets, TLC

Scale == 10000
Tenth == Scale \div 10
Milli == Scale \div 1000

NaN == -999999999
Missing == -999999998

\* A leaf holding a string that is not the text of a number.
Text == -999999997

\* The number JavaScript makes of a leaf in arithmetic and comparison.
ToNumber(x) == IF x = Text THEN NaN ELSE x

isNaN(x) == ToNumber(x) = NaN

\* JavaScript a >= b: false as soon as one side is NaN.
GE(a, b) == ~isNaN(a) /\ ~isNaN(b) /\ a >= b

\* A default of NaN instead of 0.
CoalesceNaN(x) == IF x = Missing THEN NaN ELSE x

\* data.group?.leaf ?? 0
Coalesce(x) == IF x = Missing THEN 0 ELSE x

\* Rounding to the nearest multiple of q instead of truncating.
MathTruncRounding(x, q) ==
    IF isNaN(x) THEN NaN
    ELSE IF x >= 0 THEN ((2 * x + q) \div (2 * q)) * q
    ELSE -(((2 * (-x) + q) \div (2 * q)) * q)

\* Math.trunc(x * 10^d) / 10^d, with q = Scale / 10^d: toward zero.
MathTrunc(x, q) ==
    IF isNaN(x) THEN NaN
    ELSE IF x >= 0 THEN (x \div q) * q
    ELSE -(((-x) \div q) * q)

\* Math.round(num / den) for num >= 0, den > 0: half rounds up.
MathRound(num, den) == (2 * num + den) \div (2 * den)

\* The sum of the three values instead of their maximum.
MathMaxSum(a, b, c) == a + b + c

\* The mean of the three values instead of their maximum.
MathMaxAverage(a, b, c) == (a + b + c) \div 3

\* Math.max(a, b, c).
MathMax(a, b, c) ==
    IF a >= b /\ a >= c THEN a
    ELSE IF b >= c THEN b ELSE c

(***************************************************************************)
(* Breakpoint tables, concentrations in Scale units.                       *)
(***************************************************************************)
Bp(al, ah, cl, ch) == [aqi_low |-> al, aqi_high |-> ah, c_low |-> cl, c_high |-> ch]

\* A PM2.5 table whose second range starts one step late, at 12.2.
PM25_BREAKPOINTS_Gapped ==
    << Bp(0, 50, 0, 120 * Tenth),
       Bp(51, 100, 122 * Tenth, 354 * Tenth),
       Bp(101, 150, 355 * Tenth, 554 * Tenth),
       Bp(151, 200, 555 * Tenth, 1504 * Tenth),
       Bp(201, 300, 1505 * Tenth, 2504 * Tenth),
       Bp(301, 400, 2505 * Tenth, 3504 * Tenth),
       Bp(401, 500, 3505 * Tenth, 5004 * Tenth) >>

PM25_BREAKPOINTS ==
    << Bp(0, 50, 0, 120 * Tenth),
       Bp(51, 100, 121 * Tenth, 354 * Tenth),
       Bp(101, 150, 355 * Tenth, 554 * Tenth),
       Bp(151, 200, 555 * Tenth, 1504 * Tenth),
       Bp(201, 300, 1505 * Tenth, 2504 * Tenth),
       Bp(301, 400, 2505 * Tenth, 3504 * Tenth),
       Bp(401, 500, 3505 * Tenth, 5004 * Tenth) >>

O3_BREAKPOINTS ==
    << Bp(0, 50, 0, 54 * Milli),
       Bp(51, 100, 55 * Milli, 70 * Milli),
       Bp(101, 150, 71 * Milli, 85 * Milli),
       Bp(151, 200, 86 * Milli, 105 * Milli),
       Bp(201, 300, 106 * Milli, 200 * Milli) >>

CO_BREAKPOINTS ==
    << Bp(0, 50, 0, 44 * Tenth),
       Bp(51, 100, 45 * Tenth, 94 * Tenth),
       Bp(101, 150, 95 * Tenth, 124 * Tenth),
       Bp(151, 200, 125 * Tenth, 154 * Tenth),
       Bp(201, 300, 155 * Tenth, 304 * Tenth),
       Bp(301, 400, 305 * Tenth, 404 * Tenth),
       Bp(401, 500, 405 * Tenth, 504 * Tenth) >>

\* A lookup over half-open ranges [c_low, c_high).
FindBreakpointExclusive(concentration, breakpoints) ==
    LET hits == { i \in 1..Len(breakpoints) :
                    /\ concentration >= breakpoints[i].c_low
                    /\ concentration < breakpoints[i].c_high }
    IN IF hits = {} THEN 0
       ELSE CHOOSE i \in hits : \A j \in hits : i <= j

\* breakpoints.find(b => concentration >= b.c_low && concentration <= b.c_high):
\* the index of the first match, 0 when there is none.
FindBreakpoint(concentration, breakpoints) ==
    LET hits == { i \in 1..Len(breakpoints) :
                    /\ concentration >= breakpoints[i].c_low
                    /\ concentration <= breakpoints[i].c_high }
    IN IF hits = {} THEN 0
       ELSE CHOOSE i \in hits : \A j \in hits : i <= j

\* A lookup that saturates at the table's own top AQI instead of 500.
calculateIndividualAqiTableTop(concentration, breakpoints) ==
    IF isNaN(concentration) \/ concentration < 0 THEN 0
    ELSE LET i == FindBreakpoint(concentration, breakpoints) IN
         IF i = 0
         THEN IF concentration > breakpoints[Len(breakpoints)].c_high
              THEN breakpoints[Len(breakpoints)].aqi_high ELSE 0
         ELSE LET bp == breakpoints[i] IN
              MathRound((bp.aqi_high - bp.aqi_low) * (concentration - bp.c_low)
                          + bp.aqi_low * (bp.c_high - bp.c_low),
                        bp.c_high - bp.c_low)

\* A lookup without the saturation: 0 for every concentration no breakpoint holds.
calculateIndividualAqiNoSaturation(concentration, breakpoints) ==
    IF isNaN(concentration) \/ concentration < 0 THEN 0
    ELSE LET i == FindBreakpoint(concentration, breakpoints) IN
         IF i = 0 THEN 0
         ELSE LET bp == breakpoints[i] IN
              IF bp.c_high = bp.c_low THEN bp.aqi_low
              ELSE MathRound((bp.aqi_high - bp.aqi_low) * (concentration - bp.c_low)
                               + bp.aqi_low * (bp.c_high - bp.c_low),
                             bp.c_high - bp.c_low)

calculateIndividualAqi(concentration, breakpoints) ==
    IF isNaN(concentration) \/ concentration < 0 THEN 0
    ELSE LET i == FindBreakpoint(concentration, breakpoints) IN
         IF i = 0
         THEN IF concentration > breakpoints[Len(breakpoints)].c_high THEN 500 ELSE 0
         ELSE LET bp == breakpoints[i] IN
              IF bp.c_high = bp.c_low THEN bp.aqi_low
              ELSE MathRound((bp.aqi_high - bp.aqi_low) * (concentration - bp.c_low)
                               + bp.aqi_low * (bp.c_high - bp.c_low),
                             bp.c_high - bp.c_low)

\* An overall AQI that gives up (0) as soon as one input is NaN or negative.
calculateOverallAqiStrict(pm25_ugm3, o3_ppm, co_ppm) ==
    IF \E x \in { pm25_ugm3, o3_ppm, co_ppm } : isNaN(x) \/ x < 0
    THEN 0
    ELSE MathMax(calculateIndividualAqi(MathTrunc(pm25_ugm3, Tenth), PM25_BREAKPOINTS),
                 calculateIndividualAqi(MathTrunc(o3_ppm, Milli), O3_BREAKPOINTS),
                 calculateIndividualAqi(MathTrunc(co_ppm, Tenth), CO_BREAKPOINTS))

\* An overall AQI that leaves ozone out.
calculateOverallAqiWithoutO3(pm25_ugm3, o3_ppm, co_ppm) ==
    MathMax(calculateIndividualAqi(MathTrunc(pm25_ugm3, Tenth), PM25_BREAKPOINTS),
            0,
            calculateIndividualAqi(MathTrunc(co_ppm, Tenth), CO_BREAKPOINTS))

calculateOverallAqi(pm25_ugm3, o3_ppm, co_ppm) ==
    LET truncatedPm25 == MathTrunc(pm25_ugm3, Tenth)
        truncatedO3 == MathTrunc(o3_ppm, Milli)
        truncatedCo == MathTrunc(co_ppm, Tenth)
        aqiPm25 == calculateIndividualAqi(truncatedPm25, PM25_BREAKPOINTS)
        aqiO3 == calculateIndividualAqi(truncatedO3, O3_BREAKPOINTS)
        aqiCo == calculateIndividualAqi(truncatedCo, CO_BREAKPOINTS)
    IN MathMax(aqiPm25, aqiO3, aqiCo)

(***************************************************************************)
(* Alert constants and helpers (src/App.tsx 18-29).                        *)
(***************************************************************************)
\* The watched pollutants declared in the other order.
POLLUTANT_KEYS_Reversed == << "o3", "pm25" >>

\* Object.entries(POLLUTANT_THRESH): the keys in declaration order.
POLLUTANT_KEYS == << "pm25", "o3" >>

\* pm25 in ug/m3, o3 in ppb (the unit of the decoded reading).
POLLUTANT_THRESH ==
    [ pm25 |-> [warn |-> 355 * Tenth, bad |-> 555 * Tenth],
      o3   |-> [warn |-> 125 * Scale, bad |-> 200 * Scale] ]

AQI_LEVELS == << "Bueno", "Moderado", "Sensibles", "Malo", "Muy Malo", "Peligroso" >>

\* Array.prototype.indexOf: zero-based, -1 when absent.
IndexOf(seq, x) ==
    LET hits == { i \in 1..Len(seq) : seq[i] = x }
    IN IF hits = {} THEN -1
       ELSE (CHOOSE i \in hits : \A j \in hits : i <= j) - 1

getAqiLevel(v) ==
    IF v <= 50 THEN [text |-> "Bueno", cls |-> "good"]
    ELSE IF v <= 100 THEN [text |-> "Moderado", cls |-> "mod"]
    ELSE IF v <= 150 THEN [text |-> "Sensibles", cls |-> "warn"]
    ELSE IF v <= 200 THEN [text |-> "Malo", cls |-> "bad"]
    ELSE IF v <= 300 THEN [text |-> "Muy Malo", cls |-> "bad"]
    ELSE [text |-> "Peligroso", cls |-> "bad"]

toUpperCase(key) == IF key = "pm25" THEN "PM25" ELSE "O3"

(***************************************************************************)
(* Raw samples and decoding (src/App.tsx 170-201).  A raw sample carries   *)
(* the leaves the AQI and the alerts read; o3_ppm holds ppb despite its    *)
(* name.                                                                   *)
(***************************************************************************)
Environment(temperature, humidity, pressure) ==
    << [temperature |-> temperature, humidity |-> humidity, pressure |-> pressure] >>

Gases(air_quality_ppm, o3_ppm, co_ppm, lpg, natural_gas) ==
    << [air_quality_ppm |-> air_quality_ppm, o3_ppm |-> o3_ppm, co_ppm |-> co_ppm,
        lpg |-> lpg, natural_gas |-> natural_gas] >>

Particulates(pm1_ugm3, pm25_mgm3) ==
    << [pm1_ugm3 |-> pm1_ugm3, pm25_mgm3 |-> pm25_mgm3] >>

\* A sample with its three groups, the leaves the AQI does not read at 0.
DeviceData(ts, pm25, o3, co) ==
    [ timestamp |-> ts,
      environment |-> Environment(0, 0, 0),
      gases |-> Gases(0, o3, co, 0, 0),
      particulates |-> Particulates(0, pm25) ]

\* data.group?.leaf: undefined when the group is absent; a group is << >> or
\* a one-element sequence holding its leaves.
Opt(group, leaf) == IF group = << >> THEN Missing ELSE group[1][leaf]

\* x.toFixed(1) of a number: the nearest multiple of 0.1, NaN kept.
toFixed1(x) ==
    IF isNaN(x) THEN NaN
    ELSE IF x >= 0 THEN ((2 * x + Tenth) \div (2 * Tenth)) * Tenth
    ELSE -(((2 * (-x) + Tenth) \div (2 * Tenth)) * Tenth)

\* Calling toFixed on a string throws: the decoder's only failure.
TypeError == [error |-> "TypeError"]

\* new Date(timestamp).getTime(): the sample's second of the day, in ms.
getTime(timestamp) == timestamp * 1000

\* No conversion: the ppb value used as ppm.
Div1000Identity(x) == ToNumber(x)

\* x / 1000 on the fixed-point representation.
Div1000(x) ==
    IF isNaN(x) THEN NaN
    ELSE IF x >= 0 THEN x \div 1000 ELSE -((-x) \div 1000)

transformDeviceData(data) ==
    LET pm25 == Coalesce(Opt(data.particulates, "pm25_mgm3"))
        o3_ppb == Coalesce(Opt(data.gases, "o3_ppm"))
        o3_ppm == Div1000(o3_ppb)
        co_ppm == Coalesce(Opt(data.gases, "co_ppm"))
        aqi == calculateOverallAqi(pm25, o3_ppm, co_ppm)
        tempC == Coalesce(Opt(data.environment, "temperature"))
        pressure == Coalesce(Opt(data.environment, "pressure"))
    IN IF pressure = Text THEN TypeError
       ELSE [ sensorData |->
                [ aqi |-> aqi,
                  co2 |-> Coalesce(Opt(data.gases, "air_quality_ppm")),
                  o3 |-> o3_ppb,
                  co |-> Coalesce(Opt(data.gases, "co_ppm")),
                  glp |-> Coalesce(Opt(data.gases, "lpg")),
                  naturalGas |-> Coalesce(Opt(data.gases, "natural_gas")),
                  pm1 |-> Coalesce(Opt(data.particulates, "pm1_ugm3")),
                  pm25 |-> pm25,
                  rh |-> Coalesce(Opt(data.environment, "humidity")),
                  timestamp |-> getTime(data.timestamp) ],
              weatherData |->
                [ tempC |-> tempC,
                  aqi |-> aqi,
                  humidity |-> Coalesce(Opt(data.environment, "humidity")),
                  pressure |-> << toFixed1(pressure), " hPa" >> ] ]

\* A nullable value is a sequence of length 0 (null) or 1.
Null == << >>
Some(x) == << x >>

(***************************************************************************)
(* State.                                                                  *)
(*   The database: the listeners registered on it, the one-shot fetches    *)
(*   not yet answered, and the 'alerts' node.                              *)
(*   The mounted DashboardPage: the state and closure variables of its     *)
(*   useRealtimeData hook and its two alert refs.                          *)
(***************************************************************************)
VARIABLES
    mounted,               \* DashboardPage is mounted
    inst,                  \* which mount this is (each mount is a fresh component)
    sensorDataOn,          \* sensorDataRef.on('value', onDateChange) is registered
    timeListeners,         \* registered inner listeners: [ref, cb, inst]
    timeListenersPeak,     \* most inner listeners registered at once in the last handler
    latestTimeRef,         \* closure variable: date key of the inner query, 0 = null
    onTimeChangeCallback,  \* closure variable: id of the inner callback, 0 = null
    nextCb,                \* id of the next closure created
    latestReadings,        \* useState<SensorData | null>
    loading,               \* useState(true)
    history,               \* useState<HistoricalData[]>
    pendingHistory,        \* once('value') fetches in flight: [date, inst]
    effectPending,         \* latestReadings changed since the alert effect last ran
    effectDeps,            \* the latestReadings the alert effect last ran with
    lastAqiLevel,          \* useRef<string | null>
    lastPollutantFlags,    \* useRef({pm25: false, o3: false})
    alerts,                \* the 'alerts' node, in push-id order
    now,                   \* wall clock: ticks at every evaluation
    lastOp,                \* the operation that produced this state
    input,                 \* arguments of a call of the function under study
    result                 \* its result, Null before the call

vars == << mounted, inst, sensorDataOn, timeListeners, timeListenersPeak,
           latestTimeRef, onTimeChangeCallback, nextCb, latestReadings, loading,
           history, pendingHistory, effectPending, effectDeps,
           lastAqiLevel, lastPollutantFlags, alerts, now, lastOp, input, result >>

hookVars == << sensorDataOn, timeListeners, timeListenersPeak, latestTimeRef,
               onTimeChangeCallback, nextCb, pendingHistory >>
alertVars == << lastAqiLevel, lastPollutantFlags, alerts, now >>
aqiVars == << input, result >>

(***************************************************************************)
(* The alert effect (src/App.tsx 288-324).                                 *)
(***************************************************************************)
\* logAlert writing to the 'alerts' node itself instead of a pushed child.
logAlertSet(log, alertData, t) ==
    << [ type |-> alertData.type, level |-> alertData.level,
         value |-> alertData.value, message |-> alertData.message,
         cls |-> alertData.cls, ts |-> t ] >>

\* logAlert: push() appends under a fresh, increasing id; ts is the wall clock.
logAlert(log, alertData, t) ==
    Append(log, [ type |-> alertData.type, level |-> alertData.level,
                  value |-> alertData.value, message |-> alertData.message,
                  cls |-> alertData.cls, ts |-> t ])

\* The AQI branch without the macro-condition test: alerts on any category change.
AqiAlertAnyChange(last, aqi) ==
    LET currentAqi == getAqiLevel(aqi) IN
    IF last # Null /\ last[1] # currentAqi.text
    THEN << [ type |-> "AQI", level |-> currentAqi.text, value |-> aqi,
              message |-> << "AQI", "cambio a", currentAqi.text >>,
              cls |-> currentAqi.cls ] >>
    ELSE << >>

\* The AQI branch without the test that a previous category is recorded: an
\* unset category counts as an acceptable one (indexOf gives -1).
AqiAlertFromUnset(last, aqi) ==
    LET currentAqi == getAqiLevel(aqi)
        prevIdx == IF last = Null THEN -1 ELSE IndexOf(AQI_LEVELS, last[1])
        currIdx == IndexOf(AQI_LEVELS, currentAqi.text)
    IN IF currIdx > 1 /\ prevIdx <= 1
       THEN << [ type |-> "AQI", level |-> currentAqi.text, value |-> aqi,
                 message |-> << "AQI", "cambio a", currentAqi.text >>,
                 cls |-> currentAqi.cls ] >>
       ELSE IF currIdx <= 1 /\ prevIdx > 1
       THEN << [ type |-> "AQI", level |-> currentAqi.text, value |-> aqi,
                 message |-> << "AQI", "volvio a niveles aceptables" >>,
                 cls |-> currentAqi.cls ] >>
       ELSE << >>

\* Lines 299-308: the AQI alert of one reading, << >> when there is none.
AqiAlert(last, aqi) ==
    LET currentAqi == getAqiLevel(aqi) IN
    IF last # Null /\ last[1] # currentAqi.text
    THEN LET prevIdx == IndexOf(AQI_LEVELS, last[1])
             currIdx == IndexOf(AQI_LEVELS, currentAqi.text)
         IN IF currIdx > 1 /\ prevIdx <= 1
            THEN << [ type |-> "AQI", level |-> currentAqi.text, value |-> aqi,
                      message |-> << "AQI", "cambio a", currentAqi.text >>,
                      cls |-> currentAqi.cls ] >>
            ELSE IF currIdx <= 1 /\ prevIdx > 1
            THEN << [ type |-> "AQI", level |-> currentAqi.text, value |-> aqi,
                      message |-> << "AQI", "volvio a niveles aceptables" >>,
                      cls |-> currentAqi.cls ] >>
            ELSE << >>
    ELSE << >>

\* Line 309.
NextAqiLevel(last, aqi) == Some(getAqiLevel(aqi).text)

\* The pollutant branch alerting again when an elevated value reaches the bad tier.
PollutantAlertEscalating(key, flag, value) ==
    LET thresholds == POLLUTANT_THRESH[key] IN
    IF GE(value, thresholds.warn)
    THEN IF ~flag \/ GE(value, thresholds.bad)
         THEN LET level == IF GE(value, thresholds.bad) THEN "Malo" ELSE "Sensibles" IN
              << [ type |-> toUpperCase(key), level |-> level, value |-> value,
                   message |-> << toUpperCase(key), "elevado" >>,
                   cls |-> IF level = "Malo" THEN "bad" ELSE "warn" ] >>
         ELSE << >>
    ELSE IF flag
         THEN << [ type |-> toUpperCase(key), level |-> "Moderado", value |-> value,
                   message |-> << toUpperCase(key), "volvio a niveles aceptables" >>,
                   cls |-> "mod" ] >>
         ELSE << >>

\* Lines 312-322: the alert of one watched pollutant, << >> when there is none.
PollutantAlert(key, flag, value) ==
    LET thresholds == POLLUTANT_THRESH[key] IN
    IF GE(value, thresholds.warn)
    THEN IF ~flag
         THEN LET level == IF GE(value, thresholds.bad) THEN "Malo" ELSE "Sensibles" IN
              << [ type |-> toUpperCase(key), level |-> level, value |-> value,
                   message |-> << toUpperCase(key), "elevado" >>,
                   cls |-> IF level = "Malo" THEN "bad" ELSE "warn" ] >>
         ELSE << >>
    ELSE IF flag
         THEN << [ type |-> toUpperCase(key), level |-> "Moderado", value |-> value,
                   message |-> << toUpperCase(key), "volvio a niveles aceptables" >>,
                   cls |-> "mod" ] >>
         ELSE << >>

\* The flag update with line 317 left out: entering elevated is not recorded.
PollutantFlagNotSet(key, flag, value) ==
    LET thresholds == POLLUTANT_THRESH[key] IN
    IF GE(value, thresholds.warn)
    THEN flag
    ELSE IF flag THEN FALSE ELSE flag

\* Lines 317 and 321: the flag after the reading.
PollutantFlag(key, flag, value) ==
    LET thresholds == POLLUTANT_THRESH[key] IN
    IF GE(value, thresholds.warn)
    THEN IF ~flag THEN TRUE ELSE flag
    ELSE IF flag THEN FALSE ELSE flag

\* Object.entries(POLLUTANT_THRESH).forEach: the alerts of keys[i..], in order.
RECURSIVE PollutantAlerts(_, _, _, _)
PollutantAlerts(keys, i, flags, reading) ==
    IF i > Len(keys) THEN << >>
    ELSE PollutantAlert(keys[i], flags[keys[i]], reading[keys[i]])
            \o PollutantAlerts(keys, i + 1, flags, reading)

\* All alerts of one run of the effect, in the order of the logAlert calls.
EffectAlerts(last, flags, reading) ==
    AqiAlert(last, reading.aqi) \o PollutantAlerts(POLLUTANT_KEYS, 1, flags, reading)

RECURSIVE LogAll(_, _, _)
LogAll(log, emitted, t) ==
    IF emitted = << >> THEN log
    ELSE LogAll(logAlert(log, Head(emitted), t), Tail(emitted), t)

AlertEffect(maxEvals) ==
    /\ mounted
    /\ effectPending
    /\ effectPending' = FALSE
    /\ effectDeps' = latestReadings
    /\ IF latestReadings = Null
       THEN UNCHANGED alertVars
       ELSE LET reading == latestReadings[1] IN
            /\ now < maxEvals
            /\ now' = now + 1
            /\ alerts' = LogAll(alerts,
                                EffectAlerts(lastAqiLevel, lastPollutantFlags, reading),
                                now')
            /\ lastAqiLevel' = NextAqiLevel(lastAqiLevel, reading.aqi)
            /\ lastPollutantFlags' =
                   [ key \in DOMAIN lastPollutantFlags |->
                       PollutantFlag(key, lastPollutantFlags[key], reading[key]) ]
    /\ lastOp' = "AlertEffect"
    /\ UNCHANGED << mounted, inst, hookVars, latestReadings, loading, history, aqiVars >>

\* AlertsPage.clearAlerts (418-428), confirmed by the user: db.ref('alerts').remove().
\* AlertsPage is a route of its own, shown while DashboardPage is not.
ClearAlerts ==
    /\ ~mounted
    /\ alerts' = << >>
    /\ lastOp' = "ClearAlerts"
    /\ UNCHANGED << mounted, inst, hookVars, latestReadings, loading, history,
                    effectPending, effectDeps, lastAqiLevel, lastPollutantFlags, now,
                    aqiVars >>

(***************************************************************************)
(* The live subscription (src/App.tsx 203-276).                            *)
(***************************************************************************)
HISTORY_LIMIT == 72

\* A listener put on the first date bucket whatever key was emitted.
ListenerOnFirstBucket(ref, cb, i) == [ref |-> 1, cb |-> cb, inst |-> i]

\* A registration: the query's date bucket, the callback and the mount that
\* created the callback.
Listener(ref, cb, i) == [ref |-> ref, cb |-> cb, inst |-> i]

\* query.off('value', callback): removes that registration, if it is there.
Off(registry, ref, cb) == { l \in registry : ~(l.ref = ref /\ l.cb = cb) }

\* onDateChange without the off: the new listener is only added.
RewireInnerNoOff(registry, oldRef, oldCb, newListener) ==
    << registry, registry \cup {newListener} >>

\* onDateChange with the two registry statements swapped: on, then off.
RewireInnerOnFirst(registry, oldRef, oldCb, newListener) ==
    LET afterOn == registry \cup {newListener}
        afterOff == IF oldRef # 0 /\ oldCb # 0
                    THEN Off(afterOn, oldRef, oldCb)
                    ELSE afterOn
    IN << afterOn, afterOff >>

\* Lines 225-243: the registry after each of the two registry statements of
\* onDateChange, off of the previous inner listener and on of the new one.
RewireInner(registry, oldRef, oldCb, newListener) ==
    LET afterOff == IF oldRef # 0 /\ oldCb # 0
                    THEN Off(registry, oldRef, oldCb)
                    ELSE registry
        afterOn == afterOff \cup {newListener}
    IN << afterOff, afterOn >>

Peak(registries) ==
    LET sizes == { Cardinality(registries[i]) : i \in 1..Len(registries) }
    IN CHOOSE n \in sizes : \A m \in sizes : m <= n

\* limitToLast(n) on a bucket given in key order.
LimitToLast(bucket, n) ==
    IF Len(bucket) <= n THEN bucket
    ELSE SubSeq(bucket, Len(bucket) - n + 1, Len(bucket))

\* Lines 249-261.
HistoryPoint(d) ==
    [ timestamp |-> getTime(d.timestamp),
      aqi |-> calculateOverallAqi(Coalesce(Opt(d.particulates, "pm25_mgm3")),
                                  Div1000(Coalesce(Opt(d.gases, "o3_ppm"))),
                                  Coalesce(Opt(d.gases, "co_ppm"))) ]

\* Array.prototype.sort((a, b) => a.timestamp - b.timestamp): stable, so a
\* point goes behind the points with a smaller timestamp and behind the earlier
\* points with the same timestamp.
SortByTimestamp(points) ==
    LET n == Len(points)
        rank == [ i \in 1..n |->
                    Cardinality({ j \in 1..n :
                        \/ points[j].timestamp < points[i].timestamp
                        \/ points[j].timestamp = points[i].timestamp /\ j < i }) + 1 ]
    IN [ k \in 1..n |-> points[CHOOSE i \in 1..n : rank[i] = k] ]

\* The points in the order the store yields the samples.
HistoryArrayUnsorted(values) == [ i \in 1..Len(values) |-> HistoryPoint(values[i]) ]

HistoryArray(values) ==
    SortByTimestamp([ i \in 1..Len(values) |-> HistoryPoint(values[i]) ])

\* An event delivered to a callback whether or not it is registered.
DeliveredAlways(registered) == TRUE

\* The database calls a callback only while it is registered: after off() the
\* callback is not called again, also not for a change that was on its way.
Delivered(registered) == registered

\* A setState applied whatever component the closure belongs to.
IsLiveAlways(requester) == TRUE

\* React applies a setState only to a mounted component: a closure created by
\* the mount numbered requester sets state only while that mount is the live one.
IsLive(requester) == mounted /\ requester = inst

\* A snapshot taken to hold data whatever it holds.
existsAlways(dateKey) == TRUE

\* dateSnap.exists(): date key 0 is a snapshot with no data.
exists(dateKey) == dateKey # 0

\* onDateChange (218-265): the database emits an outer snapshot with the given
\* date key, 0 for a snapshot with no data, and calls onDateChange if it is
\* registered.
OnDateChange(dateKey, maxCb) ==
    /\ IF ~Delivered(sensorDataOn)
       THEN UNCHANGED << loading, timeListeners, timeListenersPeak, latestTimeRef,
                         onTimeChangeCallback, nextCb, pendingHistory >>
       ELSE IF ~exists(dateKey)
       THEN /\ loading' = FALSE
            /\ UNCHANGED << timeListeners, timeListenersPeak, latestTimeRef,
                            onTimeChangeCallback, nextCb, pendingHistory >>
       ELSE LET steps == RewireInner(timeListeners, latestTimeRef, onTimeChangeCallback,
                                     Listener(dateKey, nextCb, inst))
            IN /\ nextCb <= maxCb
               /\ timeListeners' = steps[Len(steps)]
               /\ timeListenersPeak' = Peak(steps)
               /\ latestTimeRef' = dateKey
               /\ onTimeChangeCallback' = nextCb
               /\ nextCb' = nextCb + 1
               /\ pendingHistory' = Append(pendingHistory, [date |-> dateKey, inst |-> inst])
               /\ UNCHANGED loading
    /\ lastOp' = IF ~sensorDataOn THEN "OnDateChange: not registered"
                  ELSE IF dateKey = 0 THEN "OnDateChange: no data"
                  ELSE "OnDateChange"
    /\ UNCHANGED << mounted, inst, sensorDataOn, latestReadings, history, effectPending,
                    effectDeps, alertVars, aqiVars >>

\* onTimeChangeCallback (231-242), called by the database for a registered inner
\* listener.  timeSnap = Null is a snapshot with no data.  A closure of an
\* earlier mount sets the state of a component that is gone: nothing changes.
\* When transformDeviceData throws, the callback ends before any setState.
OnTimeChange(l, timeSnap) ==
    /\ l \in timeListeners
    /\ IF timeSnap # Null /\ IsLive(l.inst)
       THEN LET decoded == transformDeviceData(timeSnap[1])
            IN IF decoded = TypeError
               THEN UNCHANGED << latestReadings, loading, effectPending >>
               ELSE /\ latestReadings' = Some(decoded.sensorData)
                    /\ loading' = FALSE
                    /\ effectPending' = TRUE
       ELSE UNCHANGED << latestReadings, loading, effectPending >>
    /\ lastOp' = IF timeSnap = Null THEN "OnTimeChange: no data" ELSE "OnTimeChange"
    /\ UNCHANGED << mounted, inst, hookVars, history, effectDeps, alertVars, aqiVars >>

\* The callback of once('value') (245-264) for the i-th fetch in flight; bucket is
\* what the store holds under the date key, in key order, << >> when nothing.
OnHistory(i, bucket) ==
    /\ i \in 1..Len(pendingHistory)
    /\ pendingHistory' = SubSeq(pendingHistory, 1, i - 1)
                            \o SubSeq(pendingHistory, i + 1, Len(pendingHistory))
    /\ IF bucket # << >> /\ IsLive(pendingHistory[i].inst)
       THEN history' = HistoryArray(LimitToLast(bucket, HISTORY_LIMIT))
       ELSE UNCHANGED history
    /\ lastOp' = "OnHistory"
    /\ UNCHANGED << mounted, inst, sensorDataOn, timeListeners, timeListenersPeak,
                    latestTimeRef, onTimeChangeCallback, nextCb, latestReadings,
                    loading, effectPending, effectDeps, alertVars, aqiVars >>

\* A cleanup that removes the outer listener only.
CleanupOuterOnly(outerOn, registry, ref, cb) == << FALSE, registry >>

\* The function the effect returns (269-275), on the outer registration and the
\* inner registry: sensorDataRef.off, then latestTimeRef.off if both closure
\* variables are set.  off of a listener that is not registered does nothing.
Cleanup(outerOn, registry, ref, cb) ==
    << FALSE, IF ref # 0 /\ cb # 0 THEN Off(registry, ref, cb) ELSE registry >>

\* The effect's cleanup (269-275), run when DashboardPage unmounts.
Unmount ==
    /\ mounted
    /\ mounted' = FALSE
    /\ sensorDataOn' =
          Cleanup(sensorDataOn, timeListeners, latestTimeRef, onTimeChangeCallback)[1]
    /\ timeListeners' =
          Cleanup(sensorDataOn, timeListeners, latestTimeRef, onTimeChangeCallback)[2]
    /\ timeListenersPeak' = Cardinality(timeListeners)
    /\ effectPending' = FALSE
    /\ lastOp' = "Unmount"
    /\ UNCHANGED << inst, latestTimeRef, onTimeChangeCallback, nextCb, latestReadings,
                    loading, history, pendingHistory, effectDeps, alertVars, aqiVars >>

\* A fresh DashboardPage: useState and useRef initial values (164-168, 285-286),
\* the subscription effect up to sensorDataRef.on (203-216, 267), and the first
\* run of the alert effect still to come.
Mount(maxMounts) ==
    /\ ~mounted
    /\ inst < maxMounts
    /\ mounted' = TRUE
    /\ inst' = inst + 1
    /\ sensorDataOn' = TRUE
    /\ latestTimeRef' = 0
    /\ onTimeChangeCallback' = 0
    /\ latestReadings' = Null
    /\ loading' = TRUE
    /\ history' = << >>
    /\ effectPending' = TRUE
    /\ effectDeps' = Null
    /\ lastAqiLevel' = Null
    /\ lastPollutantFlags' = [pm25 |-> FALSE, o3 |-> FALSE]
    /\ timeListenersPeak' = Cardinality(timeListeners)
    /\ lastOp' = "Mount"
    /\ UNCHANGED << timeListeners, nextCb, pendingHistory, alerts, now, aqiVars >>

\* The state once DashboardPage has mounted for the first time.
InitApp ==
    /\ mounted = TRUE
    /\ inst = 1
    /\ sensorDataOn = TRUE
    /\ timeListeners = {}
    /\ timeListenersPeak = 0
    /\ latestTimeRef = 0
    /\ onTimeChangeCallback = 0
    /\ nextCb = 1
    /\ latestReadings = Null
    /\ loading = TRUE
    /\ history = << >>
    /\ pendingHistory = << >>
    /\ effectPending = TRUE
    /\ effectDeps = Null
    /\ lastAqiLevel = Null
    /\ lastPollutantFlags = [pm25 |-> FALSE, o3 |-> FALSE]
    /\ alerts = << >>
    /\ now = 0
    /\ lastOp = "Init"

(***************************************************************************)
(* Specification Spec: every operation, over two date buckets, one live    *)
(* sample that decodes and one that does not (the alert specifications     *)
(* below vary the samples).                                                *)
(***************************************************************************)
MaxCallbacks == 3
MaxMounts == 2
MaxEvals == 1

DateKeys == { 1, 2 }

SampleGood == DeviceData(1, 100 * Tenth, 0, 0)
SampleBad == DeviceData(2, 400 * Tenth, 0, 0)
LiveSamples == { SampleGood, SampleBad }

\* A sample whose pressure leaf holds text.
SampleMalformed == [SampleBad EXCEPT !.environment = Environment(0, 0, Text)]

\* What the store holds under each date key, in key order: an emitted key names
\* a bucket with at least one sample.
BucketOf(dateKey) ==
    IF dateKey = 1 THEN << SampleBad, SampleGood >>
    ELSE << DeviceData(3, 600 * Tenth, 0, 0) >>

NoInput == [pm25 |-> 0, o3 |-> 0, co |-> 0]

Init ==
    /\ InitApp
    /\ input = NoInput
    /\ result = Null

Next ==
    \/ \E dateKey \in {0} \cup DateKeys : OnDateChange(dateKey, MaxCallbacks)
    \/ \E l \in timeListeners,
          timeSnap \in { Null, Some(SampleBad), Some(SampleMalformed) } :
          OnTimeChange(l, timeSnap)
    \/ \E i \in 1..Len(pendingHistory) : OnHistory(i, BucketOf(pendingHistory[i].date))
    \/ AlertEffect(MaxEvals)
    \/ Unmount
    \/ Mount(MaxMounts)
    \/ ClearAlerts

Spec == Init /\ [][Next]_vars

(***************************************************************************)
(* Specification SpecLog: the alert log over mounts, unmounts and clears   *)
(* of the log, with one date bucket and one rewiring per mount.            *)
(***************************************************************************)
MaxLogMounts == 2
MaxLogEvals == 2

NextLog ==
    \/ OnDateChange(1, MaxLogMounts)
    \/ \E l \in timeListeners, d \in LiveSamples : OnTimeChange(l, Some(d))
    \/ \E i \in 1..Len(pendingHistory) : OnHistory(i, << >>)
    \/ AlertEffect(MaxLogEvals)
    \/ Unmount
    \/ Mount(MaxLogMounts)
    \/ ClearAlerts

SpecLog == Init /\ [][NextLog]_vars

(***************************************************************************)
(* Specifications SpecAlert and SpecPollutant: one mounted dashboard fed   *)
(* with readings chosen around the alert thresholds.  In SpecAlert CO      *)
(* drives the AQI through its six categories (40, 90, 120, 180, 231, 346)  *)
(* without touching a watched pollutant; in SpecPollutant PM2.5 and O3     *)
(* cross their warn and bad thresholds.                                    *)
(***************************************************************************)
MaxAlertEvals == 4

AqiSamples ==
    { DeviceData(1, 0, 0, 35 * Tenth),
      DeviceData(2, 0, 0, 84 * Tenth),
      DeviceData(3, 0, 0, 106 * Tenth),
      DeviceData(4, 0, 0, 142 * Tenth),
      DeviceData(5, 0, 0, 200 * Tenth),
      DeviceData(6, 0, 0, 350 * Tenth) }

PollutantSamples ==
    { DeviceData(1, 100 * Tenth, 0, 0),
      DeviceData(2, 400 * Tenth, 0, 0),
      DeviceData(3, 600 * Tenth, 0, 0),
      DeviceData(4, 300 * Tenth, 0, 0),
      DeviceData(5, 100 * Tenth, 130 * Scale, 0),
      DeviceData(6, 100 * Tenth, 210 * Scale, 0),
      DeviceData(7, 400 * Tenth, 130 * Scale, 0) }

NextFeed(samples) ==
    \/ OnDateChange(1, 1)
    \/ \E l \in timeListeners, d \in samples : OnTimeChange(l, Some(d))
    \/ AlertEffect(MaxAlertEvals)

NextAlert == NextFeed(AqiSamples)

SpecAlert == Init /\ [][NextAlert]_vars

NextPollutant == NextFeed(PollutantSamples)

SpecPollutant == Init /\ [][NextPollutant]_vars

(***************************************************************************)
(* Specification SpecAqi: calculateOverallAqi as a function.  The inputs   *)
(* are drawn around every breakpoint end of the three tables, at and below *)
(* the reporting resolution, with NaN and negative values.                 *)
(***************************************************************************)
\* Values at c, just below it, and the largest value that truncates to c.
Around(c, q) == { c - 1, c, c + q - 1 }

Ends(breakpoints) ==
    { breakpoints[i].c_low : i \in 1..Len(breakpoints) }
        \cup { breakpoints[i].c_high : i \in 1..Len(breakpoints) }

InputsOf(breakpoints, q) ==
    UNION { Around(c, q) : c \in Ends(breakpoints) }
        \cup { NaN, -5 * Scale, breakpoints[Len(breakpoints)].c_high + q }

Pm25Inputs == InputsOf(PM25_BREAKPOINTS, Tenth) \cup { 1219 * (Scale \div 100), 3549 * (Scale \div 100) }
O3Inputs == InputsOf(O3_BREAKPOINTS, Milli)
CoInputs == InputsOf(CO_BREAKPOINTS, Tenth) \cup { 500 * Tenth }

InitAqi ==
    /\ InitApp
    /\ input \in [pm25 : Pm25Inputs, o3 : O3Inputs, co : CoInputs]
    /\ result = Null

Compute ==
    /\ result = Null
    /\ result' = Some(calculateOverallAqi(input.pm25, input.o3, input.co))
    /\ lastOp' = "Compute"
    /\ UNCHANGED << mounted, inst, hookVars, latestReadings, loading, history,
                    effectPending, effectDeps, alertVars, input >>

NextAqi == Compute

SpecAqi == InitAqi /\ [][NextAqi]_vars

(***************************************************************************)
(* Specification SpecIndividual: calculateIndividualAqi as a function, for *)
(* each table, over every concentration of the table's reporting           *)
(* resolution from 0 to past its top, the values next to every breakpoint  *)
(* end below that resolution, NaN and a negative value.                    *)
(***************************************************************************)
POLLUTANTS == { "pm25", "o3", "co" }

BreakpointsOf(pollutant) ==
    IF pollutant = "pm25" THEN PM25_BREAKPOINTS
    ELSE IF pollutant = "o3" THEN O3_BREAKPOINTS ELSE CO_BREAKPOINTS

\* The step calculateOverallAqi truncates the pollutant to.
ResolutionOf(pollutant) == IF pollutant = "o3" THEN Milli ELSE Tenth

TopOf(breakpoints) == breakpoints[Len(breakpoints)].c_high

GridOf(breakpoints, q) == { k * q : k \in 0..(TopOf(breakpoints) \div q) }

ConcentrationsOf(pollutant) ==
    GridOf(BreakpointsOf(pollutant), ResolutionOf(pollutant))
        \cup InputsOf(BreakpointsOf(pollutant), ResolutionOf(pollutant))
        \cup { 600 * Scale }

InitIndividual ==
    /\ InitApp
    /\ input \in UNION { [pollutant : {p}, concentration : ConcentrationsOf(p)] :
                          p \in POLLUTANTS }
    /\ result = Null

ComputeIndividual ==
    /\ result = Null
    /\ result' = Some(calculateIndividualAqi(input.concentration,
                                             BreakpointsOf(input.pollutant)))
    /\ lastOp' = "ComputeIndividual"
    /\ UNCHANGED << mounted, inst, hookVars, latestReadings, loading, history,
                    effectPending, effectDeps, alertVars, input >>

NextIndividual == ComputeIndividual

SpecIndividual == InitIndividual /\ [][NextIndividual]_vars

(***************************************************************************)
(* Specification SpecDecode: transformDeviceData as a function, over raw   *)
(* samples whose pollutant leaves are absent, text, negative, in range or  *)
(* beyond the tables, whose other leaves are numbers with at most one of   *)
(* them absent or text, and whose groups are present or absent.            *)
(***************************************************************************)
Pm25Leaves == { Missing, Text, -5 * Scale, 354 * Tenth, 355 * Tenth, 400 * Tenth, 600 * Scale }
O3Leaves ==
    { Missing, Text, -5 * Scale, 60 * Scale, 124 * Scale, 125 * Scale, 130 * Scale,
      250 * Scale }
CoLeaves == { Missing, Text, -5 * Scale, 50 * Tenth, 60 * Scale }

\* The leaves the AQI does not read, as numbers.
OTHER_LEAVES ==
    << "temperature", "humidity", "pressure", "air_quality_ppm", "lpg",
       "natural_gas", "pm1_ugm3" >>

OtherNumbers ==
    [ temperature |-> 215 * Tenth, humidity |-> 48 * Scale, pressure |-> 10132 * Tenth,
      air_quality_ppm |-> 420 * Scale, lpg |-> 3 * Scale, natural_gas |-> 7 * Scale,
      pm1_ugm3 |-> 9 * Scale ]

\* These leaves with at most one of them absent or text.
OtherLeaves ==
    { OtherNumbers }
        \cup { [OtherNumbers EXCEPT ![OTHER_LEAVES[i]] = v] :
                 i \in 1..Len(OTHER_LEAVES), v \in { Missing, Text } }

RawSample(pm25, o3, co, other, absent) ==
    [ timestamp |-> 1,
      environment |-> IF "environment" \in absent THEN << >>
                      ELSE Environment(other.temperature, other.humidity, other.pressure),
      gases |-> IF "gases" \in absent THEN << >>
                ELSE Gases(other.air_quality_ppm, o3, co, other.lpg, other.natural_gas),
      particulates |-> IF "particulates" \in absent THEN << >>
                       ELSE Particulates(other.pm1_ugm3, pm25) ]

RawSamples ==
    { RawSample(pm25, o3, co, other, absent) :
        pm25 \in Pm25Leaves, o3 \in O3Leaves, co \in CoLeaves, other \in OtherLeaves,
        absent \in SUBSET { "environment", "gases", "particulates" } }

InitDecode ==
    /\ InitApp
    /\ input \in RawSamples
    /\ result = Null

Decode ==
    /\ result = Null
    /\ result' = Some(transformDeviceData(input))
    /\ lastOp' = "Decode"
    /\ UNCHANGED << mounted, inst, hookVars, latestReadings, loading, history,
                    effectPending, effectDeps, alertVars, input >>

NextDecode == Decode

SpecDecode == InitDecode /\ [][NextDecode]_vars

(***************************************************************************)
(* Specification SpecHistory: the one-shot history fetch on buckets of      *)
(* sizes around the limit whose samples carry timestamps in several orders. *)
(***************************************************************************)
SmallBuckets == 10
MaxBucket == 76

BucketSizes == (1..SmallBuckets) \cup ((HISTORY_LIMIT - 4)..MaxBucket)

\* The timestamp of the sample at position i (in key order) of a bucket of n.
TimestampOrders == { "ascending", "descending", "rotated", "repeating" }
TimestampAt(order, i, n) ==
    CASE order = "ascending" -> i
      [] order = "descending" -> n + 1 - i
      [] order = "rotated" -> ((i + n \div 2) % n) + 1
      [] order = "repeating" -> (i % 3) + 1

HistoryBucket(order, n) ==
    [ i \in 1..n |-> DeviceData(TimestampAt(order, i, n), (i % 7) * 100 * Tenth, 0, 0) ]

HistoryBuckets == { HistoryBucket(order, n) : order \in TimestampOrders, n \in BucketSizes }

InitHistory ==
    /\ InitApp
    /\ input \in HistoryBuckets
    /\ result = Null

\* The once('value') callback of lines 245-264 on the bucket held by input.
FetchHistory ==
    /\ lastOp = "Init"
    /\ history' = HistoryArray(LimitToLast(input, HISTORY_LIMIT))
    /\ lastOp' = "FetchHistory"
    /\ UNCHANGED << mounted, inst, hookVars, latestReadings, loading, effectPending,
                    effectDeps, alertVars, aqiVars >>

NextHistory == FetchHistory

SpecHistory == InitHistory /\ [][NextHistory]_vars

(***************************************************************************)
(* The history page: one leaf of every sample of a date bucket.            *)
(***************************************************************************)
\* Lines 536-544: the dotted path of a variable, split at the dots.
VARIABLE_OPTIONS ==
    [ co |-> << "gases", "co_ppm" >>,
      o3 |-> << "gases", "o3_ppm" >>,
      pm25 |-> << "particulates", "pm25_mgm3" >>,
      co2 |-> << "gases", "air_quality_ppm" >>,
      temperature |-> << "environment", "temperature" >>,
      humidity |-> << "environment", "humidity" >>,
      pressure |-> << "environment", "pressure" >> ]

\* typeof value === 'number': NaN is a number, text and undefined are not.
IsNumber(value) == value \notin { Missing, Text }

\* getNestedValue (547-550): `acc && acc[part]` along the path, undefined for
\* a value that is not a number.
getNestedValue(obj, path) ==
    LET value == Opt(obj[path[1]], path[2])
    IN IF IsNumber(value) THEN value ELSE Missing

\* A time key 'HH-MM-SS', held as the second of the day it names.
TimeKey(hh, mm, ss) == hh * 3600 + mm * 60 + ss

\* time.substring(0, 5): 'HH-MM', held as the minute of the day.
substring05(time) == time \div 60

\* Lines 624-631: the point of one entry << time, record >>; fullTimestamp is
\* the selected date followed by the whole time key.
ChartPoint(entry, path) ==
    [ time |-> substring05(entry[1]),
      fullTimestamp |-> entry[1],
      value |-> getNestedValue(entry[2], path) ]

\* filter(item => item.value !== undefined && !isNaN(item.value)), line 632.
Kept(item) == item.value # Missing /\ ~isNaN(item.value)

Filter(items) ==
    LET kept == { i \in 1..Len(items) : Kept(items[i]) }
        nth == [ k \in 1..Cardinality(kept) |->
                   CHOOSE i \in kept : Cardinality({ j \in kept : j < i }) = k - 1 ]
    IN [ k \in 1..Cardinality(kept) |-> items[nth[k]] ]

\* sort((a, b) => a.time.localeCompare(b.time)), line 633: stable, on 'HH-MM'.
SortByTime(items) ==
    LET n == Len(items)
        rank == [ i \in 1..n |->
                    Cardinality({ j \in 1..n :
                        \/ items[j].time < items[i].time
                        \/ items[j].time = items[i].time /\ j < i }) + 1 ]
    IN [ k \in 1..n |-> items[CHOOSE i \in 1..n : rank[i] = k] ]

\* Lines 623-633: processedData of the entries of a bucket.
ProcessedData(entries, path) ==
    SortByTime(Filter([ i \in 1..Len(entries) |-> ChartPoint(entries[i], path) ]))

(***************************************************************************)
(* Specification SpecField: handleGenerateChart on buckets of up to         *)
(* MaxEntries samples yielded in any order.                                *)
(***************************************************************************)
MaxEntries == 3

TimeKeys == { TimeKey(9, 59, 59), TimeKey(10, 15, 5), TimeKey(10, 15, 40), TimeKey(10, 16, 0) }

\* What the selected leaf holds; "no group" is a sample without the group.
FieldValues == { 0, 5 * Scale, Missing, Text, NaN }

FieldRecord(value) == RawSample(value, 0, value, OtherNumbers, {})
FieldRecords ==
    { FieldRecord(value) : value \in FieldValues }
        \cup { RawSample(0, 0, 0, OtherNumbers, { "gases", "particulates" }) }

\* Object.entries(data): sequences of entries with distinct time keys.
FieldBuckets ==
    UNION { { b \in [1..n -> TimeKeys \X FieldRecords] :
                \A i, j \in 1..n : i # j => b[i][1] # b[j][1] } : n \in 1..MaxEntries }

InitField ==
    /\ InitApp
    /\ input \in [ entries : FieldBuckets, selectedVariable : { "co", "pm25" } ]
    /\ result = Null

\* handleGenerateChart (612-649) on a bucket that exists: chartData is set when
\* processedData is not empty and keeps its initial [] otherwise.
GenerateChart ==
    /\ result = Null
    /\ result' = Some(ProcessedData(input.entries, VARIABLE_OPTIONS[input.selectedVariable]))
    /\ lastOp' = "GenerateChart"
    /\ UNCHANGED << mounted, inst, hookVars, latestReadings, loading, history,
                    effectPending, effectDeps, alertVars, input >>

NextField == GenerateChart

SpecField == InitField /\ [][NextField]_vars

(***************************************************************************)
(* Properties.                                                             *)
(***************************************************************************)
IsPrefix(s, t) == Len(s) <= Len(t) /\ SubSeq(t, 1, Len(s)) = s

\* The records a step appends to the log.
Appended == SubSeq(alerts', Len(alerts) + 1, Len(alerts'))

\* A step in which the alert effect evaluates a reading.
Evaluates == now' = now + 1

OfType(log, type) == SelectSeq(log, LAMBDA a : a.type = type)

\* C1: at most one inner listener is registered in every reachable state and at
\* every point inside onDateChange (the previous listener is removed before the
\* new one is registered), and a registered listener is the current one.
C1_AtMostOneInnerListener ==
    /\ Cardinality(timeListeners) <= 1
    /\ timeListenersPeak <= 1
    /\ \A l \in timeListeners :
          l = Listener(latestTimeRef, onTimeChangeCallback, inst)

\* A second keyed outer emission has replaced the first listener by one on bucket 2.
C1_Witness ==
    /\ lastOp = "OnDateChange"
    /\ nextCb = 3
    /\ timeListeners = { Listener(2, 2, 1) }

\* The claim's six categories (cut at 50/100/150/200/300) and its macro-condition.
C2_Category(aqi) ==
    IF aqi <= 50 THEN 0
    ELSE IF aqi <= 100 THEN 1
    ELSE IF aqi <= 150 THEN 2
    ELSE IF aqi <= 200 THEN 3
    ELSE IF aqi <= 300 THEN 4
    ELSE 5

C2_Concerning(aqi) == C2_Category(aqi) >= 2

\* C2: an evaluation appends one AQI alert exactly when a previous category is
\* recorded and the macro-condition of the reading differs from that of the
\* previously evaluated reading, and no AQI alert otherwise; a category is
\* recorded exactly when a reading was evaluated before.
C2_AqiAlertOnMacroFlip ==
    [][ Evaluates =>
          /\ (lastAqiLevel # Null) = (effectDeps # Null)
          /\ IsPrefix(alerts, alerts')
          /\ Len(OfType(Appended, "AQI")) =
                IF /\ lastAqiLevel # Null
                   /\ C2_Concerning(effectDeps[1].aqi)
                        # C2_Concerning(latestReadings[1].aqi)
                THEN 1 ELSE 0
      ]_vars

\* After AQI 40 or 90, 120, a concerning reading, 90: the two alerts of the scenario.
C2_Witness ==
    /\ now = 4
    /\ effectDeps # Null /\ effectDeps[1].aqi = 90
    /\ alerts = << [ type |-> "AQI", level |-> "Sensibles", value |-> 120,
                     message |-> << "AQI", "cambio a", "Sensibles" >>,
                     cls |-> "warn", ts |-> 2 ],
                   [ type |-> "AQI", level |-> "Moderado", value |-> 90,
                     message |-> << "AQI", "volvio a niveles aceptables" >>,
                     cls |-> "mod", ts |-> 4 ] >>

\* The claim's thresholds: pm25 in ug/m3, o3 in ppb.
C3_Warn(key) == IF key = "pm25" THEN 355 * Tenth ELSE 125 * Scale
C3_Bad(key) == IF key = "pm25" THEN 555 * Tenth ELSE 200 * Scale
C3_Type(key) == IF key = "pm25" THEN "PM25" ELSE "O3"

\* C3: for each watched pollutant an evaluation appends one alert exactly when
\* (value >= warn) differs from the stored flag: 'elevado' leveled Malo when
\* value >= bad, else Sensibles, on entering; 'volvio a niveles aceptables' on
\* leaving; nothing while the flag and (value >= warn) agree.
C3_PollutantAlertOnEdge ==
    [][ Evaluates =>
          \A key \in { "pm25", "o3" } :
            LET value == latestReadings[1][key]
                flag == lastPollutantFlags[key]
                high == value >= C3_Warn(key)
                new == OfType(Appended, C3_Type(key))
            IN /\ Len(new) = IF high # flag THEN 1 ELSE 0
               /\ (high /\ ~flag) =>
                     /\ new[1].message = << C3_Type(key), "elevado" >>
                     /\ new[1].level = IF value >= C3_Bad(key) THEN "Malo" ELSE "Sensibles"
               /\ (~high /\ flag) =>
                     new[1].message = << C3_Type(key), "volvio a niveles aceptables" >>
      ]_vars

\* After pm25 10, 40, an elevated value, 30: alerts at steps 2 and 4 only.
C3_Witness ==
    /\ now = 4
    /\ OfType(alerts, "PM25") =
          << [ type |-> "PM25", level |-> "Sensibles", value |-> 400 * Tenth,
               message |-> << "PM25", "elevado" >>, cls |-> "warn", ts |-> 2 ],
             [ type |-> "PM25", level |-> "Moderado", value |-> 300 * Tenth,
               message |-> << "PM25", "volvio a niveles aceptables" >>,
               cls |-> "mod", ts |-> 4 ] >>

\* C4: evaluating the reading that was evaluated last a second time appends
\* nothing and leaves lastAqiLevel and both flags unchanged.
C4_Idempotent ==
    [][ (Evaluates /\ effectDeps = latestReadings) =>
          /\ alerts' = alerts
          /\ lastAqiLevel' = lastAqiLevel
          /\ lastPollutantFlags' = lastPollutantFlags
      ]_vars

\* pm25 40 evaluated twice: the alert of the first evaluation and nothing more.
C4_Witness ==
    /\ lastOp = "AlertEffect"
    /\ now = 2
    /\ effectDeps = Some(transformDeviceData(DeviceData(2, 400 * Tenth, 0, 0)).sensorData)
    /\ alerts = << [ type |-> "PM25", level |-> "Sensibles", value |-> 400 * Tenth,
                     message |-> << "PM25", "elevado" >>, cls |-> "warn", ts |-> 1 ] >>

\* An alert that raises a condition, and one that reports its end.
C5_Raises(a) == a.message[2] \in { "elevado", "cambio a" }
C5_Returns(a) == a.message[2] = "volvio a niveles aceptables"

\* C5: in the log, two raising alerts of one type (PM25, O3 or AQI) always have
\* a 'volvio a niveles aceptables' alert of that type between them.
C5_Deduplicated ==
    \A i, j \in 1..Len(alerts) :
        (i < j /\ alerts[i].type = alerts[j].type
               /\ C5_Raises(alerts[i]) /\ C5_Raises(alerts[j]))
        => \E k \in (i + 1)..(j - 1) :
              alerts[k].type = alerts[i].type /\ C5_Returns(alerts[k])

C7_Rank(type) == IF type = "AQI" THEN 0 ELSE IF type = "PM25" THEN 1 ELSE 2

\* C7: the log is in evaluation order: the alerts of an earlier evaluation come
\* before those of a later one, and the alerts of one evaluation are at most one
\* AQI alert, then at most one PM25 alert, then at most one O3 alert.
C7_LogInEvaluationOrder ==
    \A i, j \in 1..Len(alerts) :
        i < j =>
            \/ alerts[i].ts < alerts[j].ts
            \/ /\ alerts[i].ts = alerts[j].ts
               /\ C7_Rank(alerts[i].type) < C7_Rank(alerts[j].type)

\* The second evaluation has logged an AQI, a PM25 and an O3 alert, in that order.
C7_Witness ==
    /\ Len(alerts) = 3
    /\ \A i \in 1..3 : alerts[i].ts = 2
    /\ << alerts[1].type, alerts[2].type, alerts[3].type >> = << "AQI", "PM25", "O3" >>

\* The claim's invalid concentrations.
C8_Invalid(x) == isNaN(x) \/ x < 0

C8_Individual ==
    [ pm25 |-> calculateIndividualAqi(MathTrunc(input.pm25, Tenth), PM25_BREAKPOINTS),
      o3 |-> calculateIndividualAqi(MathTrunc(input.o3, Milli), O3_BREAKPOINTS),
      co |-> calculateIndividualAqi(MathTrunc(input.co, Tenth), CO_BREAKPOINTS) ]

C8_Table(p) ==
    IF p = "pm25" THEN PM25_BREAKPOINTS
    ELSE IF p = "o3" THEN O3_BREAKPOINTS ELSE CO_BREAKPOINTS

\* C8: an invalid concentration has individual AQI 0, and the overall AQI of
\* inputs of which some are invalid is the largest individual AQI of the valid
\* ones, 0 when there is none.
C8_InvalidDegradesToZero ==
    result # Null =>
        LET valid == { p \in DOMAIN input : ~C8_Invalid(input[p]) }
            aqis == { C8_Individual[p] : p \in valid }
        IN /\ \A p \in DOMAIN input \ valid :
                 /\ calculateIndividualAqi(input[p], C8_Table(p)) = 0
                 /\ C8_Individual[p] = 0
           /\ valid # DOMAIN input =>
                 /\ aqis = {} => result[1] = 0
                 /\ aqis # {} =>
                       /\ result[1] \in aqis
                       /\ \A a \in aqis : a <= result[1]

\* pm25 is NaN, and the result is the AQI of O3 at 0.200 ppm, above that of CO.
C8_Witness ==
    /\ result = Some(300)
    /\ isNaN(input.pm25)
    /\ input.o3 = 200 * Milli
    /\ input.co = 44 * Tenth

\* C9: the overall AQI is the largest of the three individual AQIs of the
\* truncated inputs, and the individual AQI of pm25 when o3 and co are 0.
C9_MaxOfIndividual ==
    result # Null =>
        /\ result[1] \in { C8_Individual[p] : p \in DOMAIN input }
        /\ \A p \in DOMAIN input : C8_Individual[p] <= result[1]
        /\ (input.o3 = 0 /\ input.co = 0) => result[1] = C8_Individual.pm25

\* overallAqi(12, 0.20, 50): individual AQIs 50, 300 and 496.
C9_Witness ==
    /\ input = [pm25 |-> 120 * Tenth, o3 |-> 200 * Milli, co |-> 500 * Tenth]
    /\ C8_Individual = [pm25 |-> 50, o3 |-> 300, co |-> 496]
    /\ result = Some(496)

\* The claim's truncation toward zero to a multiple of q.
C10_Truncated(x, q) ==
    IF isNaN(x) THEN x
    ELSE IF x >= 0 THEN x - (x % q) ELSE -((-x) - ((-x) % q))

\* C10: the result is that of the truncated inputs (pm25 and co to 1 decimal, o3
\* to 3), so inputs with the same truncated values give the same result; pm25
\* 12.19 is scored as 12.1 and 35.49 as 35.4.
C10_TruncatesNeverRounds ==
    result # Null =>
        /\ result[1] = calculateOverallAqi(C10_Truncated(input.pm25, Tenth),
                                           C10_Truncated(input.o3, Milli),
                                           C10_Truncated(input.co, Tenth))
        /\ \A x \in Pm25Inputs :
              C10_Truncated(x, Tenth) = C10_Truncated(input.pm25, Tenth)
              => calculateOverallAqi(x, input.o3, input.co) = result[1]
        /\ input.pm25 = 1219 * (Scale \div 100)
              => result[1] = calculateOverallAqi(121 * Tenth, input.o3, input.co)
        /\ input.pm25 = 3549 * (Scale \div 100)
              => result[1] = calculateOverallAqi(354 * Tenth, input.o3, input.co)

\* pm25 35.49 alone: AQI 100, the top of the second breakpoint.
C10_Witness ==
    /\ input = [pm25 |-> 3549 * (Scale \div 100), o3 |-> 0, co |-> 0]
    /\ result = Some(100)

\* The breakpoints of the table whose range holds the concentration.
C11_Holding(c, breakpoints) ==
    { i \in 1..Len(breakpoints) :
        breakpoints[i].c_low <= c /\ c <= breakpoints[i].c_high }

\* C11: at the c_low of a breakpoint the individual AQI is its aqi_low and at
\* its c_high its aqi_high; the AQI just above a boundary is one more than the
\* AQI just below it; no concentration lies in two breakpoints; for PM2.5, 0
\* gives 0, 12.0 gives 50 and 12.1 gives 51.
C11_BreakpointEnds ==
    result # Null =>
        LET T == BreakpointsOf(input.pollutant)
            c == input.concentration
        IN /\ \A i \in 1..Len(T) :
                 /\ c = T[i].c_low => result[1] = T[i].aqi_low
                 /\ c = T[i].c_high => result[1] = T[i].aqi_high
                 /\ (c = T[i].c_high /\ i < Len(T))
                       => calculateIndividualAqi(T[i + 1].c_low, T) = result[1] + 1
           /\ Cardinality(C11_Holding(c, T)) <= 1
           /\ input.pollutant = "pm25" =>
                 /\ c = 0 => result[1] = 0
                 /\ c = 120 * Tenth => result[1] = 50
                 /\ c = 121 * Tenth => result[1] = 51

\* PM2.5 at 12.0, the top of the first breakpoint, scored 50.
C11_Witness ==
    /\ input = [pollutant |-> "pm25", concentration |-> 120 * Tenth]
    /\ result = Some(50)

\* C12: a concentration above the largest c_high of its table has individual
\* AQI 500, also for O3, whose table ends at AQI 300.
C12_SaturatesAt500 ==
    (result # Null /\ ~isNaN(input.concentration)
        /\ input.concentration > TopOf(BreakpointsOf(input.pollutant)))
    => result[1] = 500

\* O3 at 0.201 ppm, just above the table's top 0.200, scored 500.
C12_Witness ==
    /\ input = [pollutant |-> "o3", concentration |-> 201 * Milli]
    /\ result = Some(500)

\* The concentration lies in the table's declared range.
C14_InRange(c, breakpoints) ==
    ~isNaN(c) /\ breakpoints[1].c_low <= c /\ c <= TopOf(breakpoints)

\* C14 as claimed: every concentration of the declared range lies in exactly
\* one breakpoint.
C14_Partition ==
    (result # Null /\ C14_InRange(input.concentration, BreakpointsOf(input.pollutant)))
    => Cardinality(C11_Holding(input.concentration, BreakpointsOf(input.pollutant))) = 1

\* C14: each table ascends in AQI and in concentration without overlap, and each
\* range starts one resolution step (0.1, or 0.001 for O3) above the end of the
\* range before it; so every concentration of the declared range that is a
\* multiple of that step lies in exactly one breakpoint, the lookup finds it, and
\* the AQI is within that breakpoint's AQI range.
C14_PartitionAtResolution ==
    result # Null =>
        LET T == BreakpointsOf(input.pollutant)
            q == ResolutionOf(input.pollutant)
            c == input.concentration
        IN /\ \A i \in 1..Len(T) :
                 /\ T[i].c_low < T[i].c_high
                 /\ T[i].aqi_low < T[i].aqi_high
                 /\ i < Len(T) =>
                       /\ T[i + 1].c_low = T[i].c_high + q
                       /\ T[i + 1].aqi_low = T[i].aqi_high + 1
           /\ (C14_InRange(c, T) /\ c % q = 0) =>
                 /\ Cardinality(C11_Holding(c, T)) = 1
                 /\ FindBreakpoint(c, T) \in C11_Holding(c, T)
                 /\ T[FindBreakpoint(c, T)].aqi_low <= result[1]
                 /\ result[1] <= T[FindBreakpoint(c, T)].aqi_high

\* CO at 15.5, the first value of the fifth range, found there and scored 201.
C14_Witness ==
    /\ input = [pollutant |-> "co", concentration |-> 155 * Tenth]
    /\ FindBreakpoint(input.concentration, CO_BREAKPOINTS) = 5
    /\ result = Some(201)

\* The decoder returned a reading.
C13_Decoded == result # Null /\ result[1] # TypeError

\* C13: the aqi of every decoded reading is an integer from 0 to 500, whatever
\* the pm25, o3 and co leaves of the raw sample hold.
C13_AqiInRange ==
    C13_Decoded =>
        /\ result[1].sensorData.aqi \in 0..500
        /\ result[1].weatherData.aqi = result[1].sensorData.aqi

\* pm25 beyond its table, o3 negative and co absent: aqi 500.
C13_Witness ==
    /\ C13_Decoded
    /\ Opt(input.particulates, "pm25_mgm3") = 600 * Scale
    /\ Opt(input.gases, "o3_ppm") = -5 * Scale
    /\ Opt(input.gases, "co_ppm") = Missing
    /\ result[1].sensorData.aqi = 500

\* The leaves that feed the fields of sensorData and of weatherData:
\* << group, leaf, field >>.
C15_SensorLeaves ==
    { << "gases", "air_quality_ppm", "co2" >>, << "gases", "o3_ppm", "o3" >>,
      << "gases", "co_ppm", "co" >>, << "gases", "lpg", "glp" >>,
      << "gases", "natural_gas", "naturalGas" >>,
      << "particulates", "pm1_ugm3", "pm1" >>,
      << "particulates", "pm25_mgm3", "pm25" >>,
      << "environment", "humidity", "rh" >> }
C15_WeatherLeaves ==
    { << "environment", "temperature", "tempC" >>,
      << "environment", "humidity", "humidity" >> }

C15_Leaf(t) == Opt(input[t[1]], t[2])

\* C15: the decoder never raises, and every field fed by a leaf that is missing
\* or not a number is 0 (the pressure text is that of 0).
C15_NeverFails ==
    result # Null =>
        /\ result[1] # TypeError
        /\ \A t \in C15_SensorLeaves :
              C15_Leaf(t) \in { Missing, Text } => result[1].sensorData[t[3]] = 0
        /\ \A t \in C15_WeatherLeaves :
              C15_Leaf(t) \in { Missing, Text } => result[1].weatherData[t[3]] = 0
        /\ Opt(input.environment, "pressure") \in { Missing, Text }
              => result[1].weatherData.pressure = << 0, " hPa" >>

\* No leaf the decoder reads holds text.
C16_NoText ==
    /\ \A t \in C15_SensorLeaves \cup C15_WeatherLeaves : C15_Leaf(t) # Text
    /\ Opt(input.environment, "pressure") # Text

C16_OrZero(v) == IF v = Missing THEN 0 ELSE v

\* C16: a sample whose leaves are numbers or absent (singly or with their whole
\* group) decodes to a reading; in every reading each field fed by an absent
\* leaf is 0, the pressure text is that of 0 when pressure is absent, and the
\* AQI is that of the pollutants with 0 for each absent one.
C16_AbsentIsZero ==
    result # Null =>
        /\ C16_NoText => result[1] # TypeError
        /\ result[1] # TypeError =>
              /\ \A t \in C15_SensorLeaves :
                    C15_Leaf(t) = Missing => result[1].sensorData[t[3]] = 0
              /\ \A t \in C15_WeatherLeaves :
                    C15_Leaf(t) = Missing => result[1].weatherData[t[3]] = 0
              /\ Opt(input.environment, "pressure") = Missing
                    => result[1].weatherData.pressure = << 0, " hPa" >>
              /\ result[1].sensorData.aqi =
                    calculateOverallAqi(
                        C16_OrZero(Opt(input.particulates, "pm25_mgm3")),
                        Div1000(C16_OrZero(Opt(input.gases, "o3_ppm"))),
                        C16_OrZero(Opt(input.gases, "co_ppm")))

\* The gases group is absent and pm25 is 40: every gas field is 0 and the AQI is
\* that of pm25 alone.
C16_Witness ==
    /\ result # Null /\ result[1] # TypeError
    /\ input.gases = << >>
    /\ input.environment # << >>
    /\ Opt(input.particulates, "pm25_mgm3") = 400 * Tenth
    /\ \A f \in { "co2", "o3", "co", "glp", "naturalGas" } : result[1].sensorData[f] = 0
    /\ result[1].sensorData.aqi = 112

\* ppb to ppm on the fixed-point representation of a non-negative number.
C17_Ppm(x) == x \div 1000

\* C17: the reading keeps the raw ozone value (ppb) as o3 and its aqi is that of
\* pm25, ozone / 1000 (ppm) and co; the effect's o3 flag is the comparison of the
\* ppb value with 125, and a logged O3 'elevado' alert carries a ppb value >= 125.
C17_UnitsKeptApart ==
    /\ latestReadings # Null =>
          \E d \in PollutantSamples :
              LET x == Opt(d.gases, "o3_ppm")
                  pm25 == Opt(d.particulates, "pm25_mgm3")
                  co == Opt(d.gases, "co_ppm")
              IN /\ latestReadings[1].o3 = x
                 /\ latestReadings[1].pm25 = pm25
                 /\ latestReadings[1].co = co
                 /\ latestReadings[1].aqi = calculateOverallAqi(pm25, C17_Ppm(x), co)
    /\ effectDeps # Null =>
          lastPollutantFlags.o3 = (effectDeps[1].o3 >= 125 * Scale)
    /\ \A i \in 1..Len(alerts) :
          (alerts[i].type = "O3" /\ alerts[i].message[2] = "elevado")
          => alerts[i].value >= 125 * Scale

\* Ozone at 130 ppb: o3 is 130, the AQI is that of 0.130 ppm (226), and the O3
\* alert was logged with 130.
C17_Witness ==
    /\ latestReadings # Null
    /\ latestReadings[1].o3 = 130 * Scale
    /\ latestReadings[1].aqi = 226
    /\ lastPollutantFlags.o3
    /\ \E i \in 1..Len(alerts) : alerts[i].type = "O3" /\ alerts[i].value = 130 * Scale

\* C18: once the cleanup has run, neither the outer nor any inner listener is
\* registered, whether or not an inner listener was ever established, and
\* running the cleanup again leaves both registrations as they are.
C18_DisposalTearsDownBoth ==
    ~mounted =>
        /\ ~sensorDataOn
        /\ timeListeners = {}
        /\ Cleanup(sensorDataOn, timeListeners, latestTimeRef, onTimeChangeCallback)
              = << sensorDataOn, timeListeners >>

\* The cleanup has just removed the one inner listener that was registered.
C18_Witness ==
    /\ lastOp = "Unmount"
    /\ latestTimeRef # 0
    /\ timeListenersPeak = 1
    /\ timeListeners = {}
    /\ ~sensorDataOn

\* C19: an outer emission with a key removes exactly the listener it replaces,
\* which is registered at that moment, and registers one with a fresh callback;
\* disposal removes at most the current listener, registered at that moment; no
\* other step removes a listener.  Off is thus never called for a listener that
\* was removed before.
C19_RemovedExactlyOnce ==
    [][ LET old == Listener(latestTimeRef, onTimeChangeCallback, inst)
            rewired == lastOp' = "OnDateChange"
            disposed == mounted /\ ~mounted'
        IN /\ rewired =>
                 /\ latestTimeRef # 0 =>
                       /\ old \in timeListeners
                       /\ timeListeners \ timeListeners' = { old }
                 /\ latestTimeRef = 0 => timeListeners \ timeListeners' = {}
                 /\ \A l \in timeListeners' \ timeListeners : l.cb >= nextCb
           /\ disposed =>
                 /\ latestTimeRef # 0 =>
                       /\ old \in timeListeners
                       /\ timeListeners \ timeListeners' = { old }
                 /\ latestTimeRef = 0 => timeListeners' = timeListeners
           /\ (~rewired /\ ~disposed) => timeListeners' = timeListeners
      ]_vars

\* Two keyed emissions, then disposal: the first listener went at the second
\* emission, the second at disposal.
C19_Witness ==
    /\ lastOp = "Unmount"
    /\ inst = 1
    /\ nextCb = 3
    /\ onTimeChangeCallback = 2
    /\ timeListenersPeak = 1
    /\ timeListeners = {}

\* C20: an outer emission with no data sets loading to false and changes nothing
\* else: latestReadings keeps its value, no inner listener is registered or
\* removed and no history fetch is started.
C20_NoDataOnlyStopsLoading ==
    [][ lastOp' = "OnDateChange: no data" =>
           /\ loading' = FALSE
           /\ UNCHANGED << latestReadings, timeListeners, latestTimeRef,
                           onTimeChangeCallback, nextCb, pendingHistory, history,
                           sensorDataOn, effectPending >>
      ]_vars

\* A fresh subscription whose first outer snapshot is empty.
C20_Witness ==
    /\ lastOp = "OnDateChange: no data"
    /\ ~loading
    /\ latestReadings = Null
    /\ timeListeners = {}
    /\ pendingHistory = << >>
    /\ nextCb = 1

\* C21: loading is true from subscription until the first inner emission that
\* carries a sample or the first outer emission with no data, and false ever
\* after; every inner emission that carries a sample leaves the decode of a
\* sample as the latest reading; with no emission loading stays true and no
\* reading appears.
C21_LoadingUntilFirstEmission ==
    [][ /\ lastOp' = "OnTimeChange" => (~loading' /\ latestReadings' # Null)
        /\ lastOp' = "OnDateChange: no data" => ~loading'
        /\ (loading /\ ~loading') =>
              lastOp' \in { "OnTimeChange", "OnDateChange: no data" }
        /\ (~loading /\ loading') => lastOp' = "Mount"
        /\ (latestReadings = Null /\ latestReadings' # Null) => lastOp' = "OnTimeChange"
      ]_vars

\* How many times p occurs in the sequence s.
C22_Count(s, p) == Cardinality({ i \in 1..Len(s) : s[i] = p })

\* The points of the samples that limitToLast keeps: the last HISTORY_LIMIT in
\* key order.
C22_Recent ==
    LET first == IF Len(input) > HISTORY_LIMIT THEN Len(input) - HISTORY_LIMIT + 1 ELSE 1
    IN [ i \in 1..(Len(input) - first + 1) |-> HistoryPoint(input[first + i - 1]) ]

\* C22: the fetched series has at most HISTORY_LIMIT points, they are the
\* points of the most recent samples of the bucket, and the series ascends by
\* timestamp whatever order the samples come in.
C22_RecentSortedByTimestamp ==
    lastOp = "FetchHistory" =>
        /\ Len(history) <= HISTORY_LIMIT
        /\ Len(history) = Len(C22_Recent)
        /\ \A i \in 1..Len(history) :
              C22_Count(history, history[i]) = C22_Count(C22_Recent, history[i])
        /\ \A i \in 1..(Len(history) - 1) :
              history[i].timestamp <= history[i + 1].timestamp

\* A bucket larger than the limit whose samples come in descending timestamp
\* order: the series is cut to the limit and reordered.
C22_Witness ==
    /\ lastOp = "FetchHistory"
    /\ Len(input) > HISTORY_LIMIT
    /\ Len(history) = HISTORY_LIMIT
    /\ input[1].timestamp > input[2].timestamp
    /\ history[1].timestamp < history[2].timestamp

\* The leaf of a record at the selected path is a number other than NaN.
C23_Numeric(record) ==
    LET path == VARIABLE_OPTIONS[input.selectedVariable]
    IN /\ record[path[1]] # << >>
       /\ record[path[1]][1][path[2]] \notin { Missing, Text, NaN }

\* C23: the extracted series holds exactly the samples whose path resolves to a
\* number (0 included), each with its value, and ascends by the whole
\* timestamp, samples of one minute included, whatever order the store yields
\* the samples in.
C23_NumericSortedByTimestamp ==
    result # Null =>
        LET out == result[1]
            entries == input.entries
            path == VARIABLE_OPTIONS[input.selectedVariable]
        IN /\ Len(out) = Cardinality({ i \in 1..Len(entries) : C23_Numeric(entries[i][2]) })
           /\ \A i \in 1..Len(entries) :
                 C23_Numeric(entries[i][2]) =>
                    \E k \in 1..Len(out) :
                        /\ out[k].fullTimestamp = entries[i][1]
                        /\ out[k].value = entries[i][2][path[1]][1][path[2]]
           /\ \A k \in 1..(Len(out) - 1) : out[k].fullTimestamp < out[k + 1].fullTimestamp

\* The reply that a step delivers belongs to a requester that is gone: no
\* pending fetch of the live mount is the one the step removes.
C24_RequesterDisposed ==
    \A i \in 1..Len(pendingHistory) :
        pendingHistory' = SubSeq(pendingHistory, 1, i - 1)
                             \o SubSeq(pendingHistory, i + 1, Len(pendingHistory))
        => ~(mounted /\ pendingHistory[i].inst = inst)

\* C24: the reply of a history fetch that arrives after its requester was
\* disposed leaves the exposed history series as it is.
C24_LateReplyDiscarded ==
    [][ (lastOp' = "OnHistory" /\ C24_RequesterDisposed) => history' = history ]_vars

\* A fetch was started, the component was disposed, then the reply arrived.
C24_Witness ==
    /\ lastOp = "OnHistory"
    /\ ~mounted
    /\ nextCb = 2
    /\ pendingHistory = << >>
    /\ history = << >>

\* The key carried by the outer emission a step processes, read off the fetch
\* the step starts.
C25_EmittedKey == pendingHistory'[Len(pendingHistory')].date

\* C25: a registered inner listener listens on the date bucket of the most
\* recent outer emission that carried a key: the step that processes a key
\* leaves exactly the listeners of that key, and no other step registers a
\* listener or moves the watched bucket while one is registered.
C25_ListenerOnLatestBucket ==
    [][ IF lastOp' = "OnDateChange"
        THEN /\ timeListeners' # {}
             /\ \A l \in timeListeners' : l.ref = C25_EmittedKey
             /\ latestTimeRef' = C25_EmittedKey
        ELSE /\ timeListeners' \subseteq timeListeners
             /\ timeListeners' # {} => latestTimeRef' = latestTimeRef
      ]_vars

\* The second key of a session was processed: the only listener is on it.
C25_Witness ==
    /\ lastOp = "OnDateChange"
    /\ inst = 1
    /\ nextCb = 3
    /\ latestTimeRef = 2
    /\ timeListeners = { Listener(2, 2, 1) }
    /\ Len(pendingHistory) = 2
    /\ pendingHistory[1].date = 1

\* C26: the first evaluation of a session (no category recorded, both flags
\* false) appends no AQI alert whatever the AQI, appends for each watched
\* pollutant one 'elevado' alert exactly when its value is >= warn, and records
\* the category of the reading.
C26_FirstReading ==
    [][ (Evaluates /\ lastAqiLevel = Null
                   /\ \A key \in DOMAIN lastPollutantFlags : ~lastPollutantFlags[key]) =>
           LET reading == latestReadings[1] IN
           /\ OfType(Appended, "AQI") = << >>
           /\ \A key \in { "pm25", "o3" } :
                 OfType(Appended, C3_Type(key)) =
                    IF GE(reading[key], C3_Warn(key))
                    THEN << [ type |-> C3_Type(key),
                              level |-> IF GE(reading[key], C3_Bad(key))
                                        THEN "Malo" ELSE "Sensibles",
                              value |-> reading[key],
                              message |-> << C3_Type(key), "elevado" >>,
                              cls |-> IF GE(reading[key], C3_Bad(key))
                                      THEN "bad" ELSE "warn",
                              ts |-> now' ] >>
                    ELSE << >>
           /\ lastAqiLevel' = Some(AQI_LEVELS[C2_Category(reading.aqi) + 1])
      ]_vars

\* A first reading in a concerning category (PM2.5 40.0, AQI 112): one PM25
\* alert, no AQI alert, the category recorded.
C26_Witness ==
    /\ now = 1
    /\ lastOp = "AlertEffect"
    /\ latestReadings # Null
    /\ latestReadings[1].aqi > 100
    /\ lastAqiLevel = Some("Sensibles")
    /\ Len(alerts) = 1
    /\ alerts[1].type = "PM25"

C28_HistoryOfLatestKey ==
    [][ /\ lastOp' = "OnDateChange" =>
              pendingHistory' = Append(pendingHistory, [date |-> latestTimeRef', inst |-> inst])
        /\ (lastOp' # "OnDateChange" /\ lastOp' # "OnHistory") =>
              Len(pendingHistory') = Len(pendingHistory)
        /\ (mounted' /\ pendingHistory' = << >> /\ latestTimeRef' # 0) =>
              history' = HistoryArray(LimitToLast(BucketOf(latestTimeRef'), HISTORY_LIMIT))
      ]_vars

\* C29: a decoded reading in which a watched pollutant is at or above its warn
\* threshold (pm25 >= 35.5 ug/m3 or o3 >= 125 ppb) has an aqi above 100: no
\* pollutant is flagged elevated while the AQI of the reading is acceptable.
C29_ThresholdsAgreeWithScale ==
    C13_Decoded =>
        LET reading == result[1].sensorData IN
        (\E key \in { "pm25", "o3" } : GE(reading[key], C3_Warn(key)))
            => (reading.aqi > 100 /\ C2_Concerning(reading.aqi))

\* Ozone exactly at its warn threshold with PM2.5 just below its own: the
\* ozone alone puts the reading in a concerning category.
C29_Witness ==
    /\ C13_Decoded
    /\ result[1].sensorData.o3 = 125 * Scale
    /\ result[1].sensorData.pm25 = 354 * Tenth
    /\ Opt(input.gases, "co_ppm") = -5 * Scale
    /\ result[1].sensorData.aqi = 221

\* The overall AQI with the pollutant p at concentration c and the other two
\* arguments at a and b.
C30_Overall(p, c, a, b) ==
    IF p = "pm25" THEN calculateOverallAqi(c, a, b)
    ELSE IF p = "o3" THEN calculateOverallAqi(a, c, b)
    ELSE calculateOverallAqi(a, b, c)

\* Values of the other two arguments: zero, a value inside every table
\* (0.05) and one beyond the ozone table (5.0).
C30_Others == { 0, 50 * Milli, 5 * Scale }

\* C30: the individual AQI does not decrease when a valid concentration at
\* reporting resolution grows by one step, across breakpoint ends and across
\* the saturation to 500; so the overall AQI does not decrease when one of its
\* arguments grows by a step.
C30_Monotone ==
    (result # Null /\ ~isNaN(input.concentration) /\ input.concentration >= 0) =>
        LET p == input.pollutant
            c == input.concentration
            q == ResolutionOf(p)
        IN /\ c % q = 0 => calculateIndividualAqi(c + q, BreakpointsOf(p)) >= result[1]
           /\ \A a, b \in C30_Others :
                 C30_Overall(p, c + q, a, b) >= C30_Overall(p, c, a, b)

\* The last concentration of the ozone table (0.200 ppm, AQI 300): one step
\* further the AQI is 500.
C30_Witness ==
    /\ result = Some(300)
    /\ input.pollutant = "o3"
    /\ input.concentration = TopOf(O3_BREAKPOINTS)
    /\ calculateIndividualAqi(input.concentration + Milli, O3_BREAKPOINTS) = 500

====
